---- MODULE Spec2Model ----
(***************************************************************************)
(* Model of dockerhub_cleanup.py: the tag classifier (process_tags), the   *)
(* per-repository driver (process_repository) and the run (main).          *)
(*                                                                         *)
(* Strings the code inspects character by character (tag names, prefixes,  *)
(* repository names) are sequences of one-character strings.  A registry   *)
(* timestamp string is a record [main, frac, z]: main is the calendar part *)
(* counted in whole days (negative when it is no valid date-time), frac    *)
(* the digits after the dot (<<>> when there is no dot) and z whether a    *)
(* trailing "Z" is present.  An optional value (Python None) is a sequence *)
(* of length 0 or 1.                                                       *)
(***************************************************************************)
EXTENDS Integers, Sequences, FiniteSets, TLC

VARIABLES
    args,            \* parsed command line: dry_run, input_json, preserve_last, retention_days, skip_repos
    preserve_rules,  \* dict prefix -> count, in insertion order
    source,          \* what the registry / the input file holds: sequence of [name, tags]
    registry,        \* tags present in the registry: repository name -> set of tag names
    pc,              \* position of main
    backup_data,     \* dict repository -> raw tags, in insertion order
    ri,              \* index of the repository the loop of main is at
    processed_tags,  \* result of process_tags for the current repository
    ti,              \* index of the tag the loop of process_repository is at
    csv,             \* rows written to cleanup_report.csv after the header
    http,            \* deletion requests and pacing sleeps, in order
    stdout,          \* lines printed
    backup_file      \* content of the backup file, <<>> while it is not written

vars == <<args, preserve_rules, source, registry, pc, backup_data, ri,
          processed_tags, ti, csv, http, stdout, backup_file>>

----------------------------------------------------------------------------
(* Bounds of the model *)

MaxTags == 2      \* tags per repository
MaxCount == 1     \* largest count of a ranking rule

(* Program constants *)

FracDigits == 6   \* fractional digits kept by parse_docker_date
RetentionDefault == 90   \* default of --retention-days

----------------------------------------------------------------------------
(* Strings *)

StartsWith(s, prefix) ==
    /\ Len(prefix) <= Len(s)
    /\ SubSeq(s, 1, Len(prefix)) = prefix

TS(main, frac, z) == [main |-> main, frac |-> frac, z |-> z]

SENTINEL == TS(0, <<>>, TRUE)

\* The number the first n digits of ds spell
RECURSIVE DigitsValue(_, _)
DigitsValue(ds, n) ==
    IF n = 0 THEN 0 ELSE 10 * DigitsValue(ds, n - 1) + ds[n]

\* fractional.ljust(6, "0")[:6], read as a number of microseconds: the digits
\* beyond the sixth are cut off, the missing ones count as zeros
PadTruncate(frac) ==
    LET kept == IF Len(frac) >= FracDigits THEN FracDigits ELSE Len(frac)
    IN  DigitsValue(frac, kept) * 10 ^ (FracDigits - kept)

Micros == 10 ^ FracDigits

\* datetime.fromisoformat raises on a string that is no calendar date-time
ParseFails(date_str) == date_str.main < 0

\* The instant, in microseconds, of a timestamp string that parses
parse_docker_date(date_str) ==
    date_str.main * Micros + PadTruncate(date_str.frac)

----------------------------------------------------------------------------
(* process_tags *)

None == <<>>
Some(x) == <<x>>

\* datetime.utcnow(), fixed for the run, in microseconds
utcnow == 200 * Micros

pull_cutoff(retention_days) == utcnow - retention_days * Micros

\* `last_pulled_str and last_pulled_str != "0001-01-01T00:00:00Z"`
PulledIsParsed(tag) ==
    /\ tag.tag_last_pulled # None
    /\ tag.tag_last_pulled[1] # SENTINEL

\* Variant: only the first tag's timestamps stop the classification
ParseRaises_FirstOnly(tags) ==
    \E i \in 1..Len(tags) :
        /\ i = 1
        /\ \/ ParseFails(tags[i].last_updated)
           \/ PulledIsParsed(tags[i]) /\ ParseFails(tags[i].tag_last_pulled[1])

\* The first loop raises at the first timestamp that does not parse
ParseRaises(tags) ==
    \E i \in 1..Len(tags) :
        \/ ParseFails(tags[i].last_updated)
        \/ PulledIsParsed(tags[i]) /\ ParseFails(tags[i].tag_last_pulled[1])

ParsedTag(tag) ==
    [name |-> tag.name,
     last_updated_str |-> tag.last_updated,
     last_updated_dt |-> parse_docker_date(tag.last_updated),
     last_pulled_str |-> tag.tag_last_pulled,
     last_pulled_dt |-> IF PulledIsParsed(tag)
                        THEN Some(parse_docker_date(tag.tag_last_pulled[1]))
                        ELSE None,
     original |-> tag]

\* Variant: x goes in front of the elements of its own key
InsertNewestFirst_Unstable(sorted, x) ==
    LET before == {i \in 1..Len(sorted) : sorted[i].last_updated_dt > x.last_updated_dt}
        k == Cardinality(before)
    IN  SubSeq(sorted, 1, k) \o <<x>> \o SubSeq(sorted, k + 1, Len(sorted))

\* list.sort is stable, also with reverse=True: x goes behind every element
\* whose key is at least its own
InsertNewestFirst(sorted, x) ==
    LET before == {i \in 1..Len(sorted) : sorted[i].last_updated_dt >= x.last_updated_dt}
        k == Cardinality(before)
    IN  SubSeq(sorted, 1, k) \o <<x>> \o SubSeq(sorted, k + 1, Len(sorted))

RECURSIVE SortNewestFirst(_)
SortNewestFirst(seq) ==
    IF seq = <<>> THEN <<>>
    ELSE InsertNewestFirst(SortNewestFirst(SubSeq(seq, 1, Len(seq) - 1)), seq[Len(seq)])

Reason(rule, n, prefix) == [rule |-> rule, n |-> n, prefix |-> prefix]

\* seq[:count] for count >= 0
Take(seq, count) == SubSeq(seq, 1, IF count < Len(seq) THEN count ELSE Len(seq))

Matching(processed, prefix) ==
    SelectSeq(processed, LAMBDA tag : StartsWith(tag.name, prefix))

NamesOf(seq) == {seq[i].name : i \in 1..Len(seq)}

\* Variant: a counted rule keeps one tag less than its count
ApplyPrefixRule_OneLess(reasons, processed, rule) ==
    LET matching == Matching(processed, rule.prefix)
    IN  IF rule.count = None
        THEN [n \in DOMAIN reasons \cup NamesOf(matching) |->
                IF n \in NamesOf(matching)
                THEN Reason("preserved all for prefix", 0, rule.prefix)
                ELSE reasons[n]]
        ELSE [n \in DOMAIN reasons \cup NamesOf(Take(matching, rule.count[1] - 1)) |->
                IF n \in DOMAIN reasons
                THEN reasons[n]
                ELSE Reason("top for prefix", rule.count[1], rule.prefix)]

\* Variant: a preserve-all rule leaves the reason of an earlier rule in place
ApplyPrefixRule_FirstWins(reasons, processed, rule) ==
    LET matching == Matching(processed, rule.prefix)
        selected == IF rule.count = None THEN matching ELSE Take(matching, rule.count[1])
    IN  [n \in DOMAIN reasons \cup NamesOf(selected) |->
            IF n \in DOMAIN reasons
            THEN reasons[n]
            ELSE IF rule.count = None
                 THEN Reason("preserved all for prefix", 0, rule.prefix)
                 ELSE Reason("top for prefix", rule.count[1], rule.prefix)]

\* One iteration of `for prefix, count in preserve_rules.items()`
ApplyPrefixRule(reasons, processed, rule) ==
    LET matching == Matching(processed, rule.prefix)
    IN  IF rule.count = None
        THEN [n \in DOMAIN reasons \cup NamesOf(matching) |->
                IF n \in NamesOf(matching)
                THEN Reason("preserved all for prefix", 0, rule.prefix)
                ELSE reasons[n]]
        ELSE [n \in DOMAIN reasons \cup NamesOf(Take(matching, rule.count[1])) |->
                IF n \in DOMAIN reasons
                THEN reasons[n]
                ELSE Reason("top for prefix", rule.count[1], rule.prefix)]

RECURSIVE ApplyPrefixRules(_, _, _)
ApplyPrefixRules(reasons, processed, rules) ==
    IF rules = <<>> THEN reasons
    ELSE ApplyPrefixRules(ApplyPrefixRule(reasons, processed, rules[1]),
                          processed, SubSeq(rules, 2, Len(rules)))

EmptyDict == [n \in {} |-> Reason("", 0, <<>>)]

\* The dictionary preserved_reasons
PreservedReasons(processed, global_preserve_last, rules) ==
    IF rules # <<>>
    THEN ApplyPrefixRules(EmptyDict, processed, rules)
    ELSE [n \in NamesOf(Take(processed, global_preserve_last)) |->
            Reason("top newest tags", global_preserve_last, <<>>)]

\* Variant: a pull exactly at the cutoff does not count
PulledWithinRetention_Strict(tag, retention_days) ==
    /\ tag.last_pulled_dt # None
    /\ tag.last_pulled_dt[1] > pull_cutoff(retention_days)

PulledWithinRetention(tag, retention_days) ==
    /\ tag.last_pulled_dt # None
    /\ tag.last_pulled_dt[1] >= pull_cutoff(retention_days)

\* The last loop: status and reason of one tag
Classify(tag, preserved_reasons, retention_days) ==
    LET reasons ==
            (IF tag.name \in DOMAIN preserved_reasons
             THEN <<preserved_reasons[tag.name]>> ELSE <<>>)
            \o
            (IF PulledWithinRetention(tag, retention_days)
             THEN <<Reason("pulled within retention", retention_days, <<>>)>> ELSE <<>>)
        deletion_reasons ==
            IF tag.last_pulled_dt = None
            THEN <<Reason("never pulled", 0, <<>>)>>
            ELSE <<Reason("not pulled since", pull_cutoff(retention_days), <<>>)>>
    IN  [name |-> tag.name,
         last_updated_str |-> tag.last_updated_str,
         last_updated_dt |-> tag.last_updated_dt,
         last_pulled_str |-> tag.last_pulled_str,
         last_pulled_dt |-> tag.last_pulled_dt,
         original |-> tag.original,
         status |-> IF reasons # <<>> THEN "PRESERVED" ELSE "TO DELETE",
         reason |-> IF reasons # <<>> THEN reasons ELSE deletion_reasons]

\* The value process_tags returns when no timestamp fails to parse
process_tags(tags, retention_days, global_preserve_last, rules) ==
    LET processed == SortNewestFirst([i \in 1..Len(tags) |-> ParsedTag(tags[i])])
        preserved_reasons == PreservedReasons(processed, global_preserve_last, rules)
    IN  [i \in 1..Len(processed) |-> Classify(processed[i], preserved_reasons, retention_days)]

----------------------------------------------------------------------------
(* Inputs of the model *)

Prod == <<"P", "r", "o", "d">>
pr1 == <<"p", "r", "-", "1">>
pr2 == <<"p", "r", "-", "2">>
TagNames == {Prod, pr1, pr2}

Prefixes == {<<"p", "r">>, pr1}

app == <<"a", "p", "p">>
web == <<"w", "e", "b">>
logspout == <<"l", "o", "g", "s", "p", "o", "u", "t">>
logspoutx == logspout \o <<"-", "x">>

\* Timestamp strings: an old one, one that differs from it below the
\* microsecond, a newer one with a short fraction and no zone marker, one
\* that is no date-time; one just before the cutoff of the default retention
\* and one exactly at it
Old == TS(100, <<>>, TRUE)
OldSubMicro == TS(100, <<0, 0, 0, 0, 0, 0, 7>>, TRUE)
Newer == TS(150, <<5>>, FALSE)
Malformed == TS(-1, <<>>, TRUE)
BeforeCutoff == TS(109, <<9, 9, 9, 9, 9, 9, 9>>, TRUE)
AtCutoff == TS(110, <<>>, TRUE)

\* The (last_updated, tag_last_pulled) pairs of the well-formed tags of the model
Stamps ==
    {<<Old, None>>, <<Old, Some(SENTINEL)>>, <<OldSubMicro, Some(AtCutoff)>>,
     <<Newer, Some(BeforeCutoff)>>}

RawTag(name, stamps) ==
    [name |-> name, last_updated |-> stamps[1], tag_last_pulled |-> stamps[2]]

\* Every name with every pair of timestamps, and one tag whose last_updated
\* does not parse
RawTags ==
    {RawTag(name, stamps) : name \in TagNames, stamps \in Stamps}
    \cup {RawTag(pr1, <<Malformed, None>>)}

RECURSIVE SeqsUpTo(_, _)
SeqsUpTo(S, n) ==
    IF n = 0 THEN {<<>>}
    ELSE LET shorter == SeqsUpTo(S, n - 1)
         IN  shorter \cup {Append(q, x) : q \in {r \in shorter : Len(r) = n - 1}, x \in S}

DistinctNames(seq) ==
    \A i, j \in 1..Len(seq) : seq[i].name = seq[j].name => i = j

DistinctPrefixes(seq) ==
    \A i, j \in 1..Len(seq) : seq[i].prefix = seq[j].prefix => i = j

\* Tag names are unique within a repository
TagLists ==
    {q \in SeqsUpTo(RawTags, MaxTags) : DistinctNames(q)}

\* prefix (count None: preserve all) or prefix:n
Counts == {None} \cup {Some(n) : n \in 1..MaxCount}

Rules == [prefix : Prefixes, count : Counts]

\* preserve_rules is a dict: its prefixes are distinct
RuleLists ==
    {q \in SeqsUpTo(Rules, Cardinality(Prefixes)) : DistinctPrefixes(q)}

Repo(name, tags) == [name |-> name, tags |-> tags]

\* A run meets three repositories: the first one holds one tag that was never
\* pulled, the second one is skipped by the default --skip-repos, the third
\* one holds any of the tag lists.  A repository whose tag listing fails is
\* left out by fetch_backup_data, as if the registry did not list it.
Sources ==
    {<<Repo(web, <<RawTag(pr2, <<Old, None>>)>>),
       Repo(logspoutx, <<RawTag(pr1, <<Old, None>>)>>),
       Repo(app, tags)>> : tags \in TagLists}

----------------------------------------------------------------------------
(* State *)

Init ==
    /\ args \in [dry_run : BOOLEAN, input_json : BOOLEAN,
                 preserve_last : 0..MaxCount,
                 retention_days : {RetentionDefault},
                 skip_repos : {<<logspout>>}]
    /\ preserve_rules \in RuleLists
    \* --preserve-last is read only when no --preserve rule is given
    /\ preserve_rules # <<>> => args.preserve_last = 0
    /\ source \in Sources
    /\ registry = [name \in {source[i].name : i \in 1..Len(source)} |->
                     NamesOf((CHOOSE r \in {source[i] : i \in 1..Len(source)} : r.name = name).tags)]
    /\ pc = "get_backup_data"
    /\ backup_data = <<>>
    /\ ri = 0
    /\ processed_tags = <<>>
    /\ ti = 0
    /\ csv = <<>>
    /\ http = <<>>
    /\ stdout = <<>>
    /\ backup_file = None

Line(text, repo, tag) == [text |-> text, repo |-> repo, tag |-> tag]

\* any(repo_name.startswith(prefix) for prefix in args.skip_repos)
Skipped(repo_name) ==
    \E i \in 1..Len(args.skip_repos) : StartsWith(repo_name, args.skip_repos[i])

----------------------------------------------------------------------------
(* get_backup_data *)

\* --input-json: the file is used as it is
LoadBackupData ==
    /\ pc = "get_backup_data"
    /\ args.input_json
    /\ backup_data' = source
    /\ stdout' = Append(stdout, Line("Loading backup data", <<>>, <<>>))
    /\ pc' = "repositories"
    /\ ri' = 1
    /\ UNCHANGED <<args, preserve_rules, source, registry, processed_tags, ti, csv, http, backup_file>>

\* fetch_backup_data: the repositories --skip-repos names are left out
FetchLines(repos) ==
    LET skipped == SelectSeq(repos, LAMBDA repo : Skipped(repo.name))
    IN  [i \in 1..Len(skipped) |-> Line("Skipping repository", skipped[i].name, <<>>)]

FetchBackupData ==
    /\ pc = "get_backup_data"
    /\ ~args.input_json
    /\ backup_data' = SelectSeq(source, LAMBDA repo : ~Skipped(repo.name))
    /\ stdout' = stdout \o FetchLines(source)
    /\ pc' = "repositories"
    /\ ri' = 1
    /\ UNCHANGED <<args, preserve_rules, source, registry, processed_tags, ti, csv, http, backup_file>>

----------------------------------------------------------------------------
(* main: the loop over backup_data, and the backup *)

AtRepository ==
    /\ pc = "repositories"
    /\ ri <= Len(backup_data)

SkipRepository ==
    /\ AtRepository
    /\ Skipped(backup_data[ri].name)
    /\ stdout' = Append(stdout, Line("Skipping repository", backup_data[ri].name, <<>>))
    /\ ri' = ri + 1
    /\ UNCHANGED <<args, preserve_rules, source, registry, pc, backup_data,
                   processed_tags, ti, csv, http, backup_file>>

\* process_tags raises: nothing catches the error and the run ends
ProcessTagsRaises ==
    /\ AtRepository
    /\ ~Skipped(backup_data[ri].name)
    /\ ParseRaises(backup_data[ri].tags)
    /\ pc' = "raised"
    /\ UNCHANGED <<args, preserve_rules, source, registry, backup_data, ri,
                   processed_tags, ti, csv, http, stdout, backup_file>>

ProcessTagsReturns ==
    /\ AtRepository
    /\ ~Skipped(backup_data[ri].name)
    /\ ~ParseRaises(backup_data[ri].tags)
    /\ LET result == process_tags(backup_data[ri].tags, args.retention_days,
                                  args.preserve_last, preserve_rules)
       IN  IF result = <<>>
           THEN /\ ri' = ri + 1
                /\ UNCHANGED <<pc, processed_tags, ti>>
           ELSE /\ processed_tags' = result
                /\ ti' = 1
                /\ pc' = "tags"
                /\ UNCHANGED ri
    /\ UNCHANGED <<args, preserve_rules, source, registry, backup_data, csv, http, stdout, backup_file>>

\* Only a fetched backup is saved, after every repository is processed
SaveBackup ==
    /\ pc = "repositories"
    /\ ri > Len(backup_data)
    /\ ~args.input_json
    /\ backup_file' = Some(backup_data)
    /\ stdout' = Append(stdout, Line("Backup saved", <<>>, <<>>))
    /\ pc' = "done"
    /\ UNCHANGED <<args, preserve_rules, source, registry, backup_data, ri,
                   processed_tags, ti, csv, http>>

ReturnWithoutBackup ==
    /\ pc = "repositories"
    /\ ri > Len(backup_data)
    /\ args.input_json
    /\ pc' = "done"
    /\ UNCHANGED <<args, preserve_rules, source, registry, backup_data, ri,
                   processed_tags, ti, csv, http, stdout, backup_file>>

----------------------------------------------------------------------------
(* process_repository: one iteration of the loop over processed_tags *)

AtTag ==
    /\ pc = "tags"
    /\ ti <= Len(processed_tags)

Row(repo_name, tag) ==
    [repository |-> repo_name, tag |-> tag.name, last_pulled |-> tag.last_pulled_str,
     last_updated |-> tag.last_updated_str, status |-> tag.status, reason |-> tag.reason]

Request(op, repo, tag, ok) == [op |-> op, repo |-> repo, tag |-> tag, ok |-> ok]

Sleep == Request("sleep", <<>>, <<>>, TRUE)

\* writer.writerow, and the step to the next tag or the next repository
WriteRowAndAdvance ==
    /\ csv' = Append(csv, Row(backup_data[ri].name, processed_tags[ti]))
    /\ IF ti < Len(processed_tags)
       THEN /\ ti' = ti + 1
            /\ UNCHANGED <<pc, ri, processed_tags>>
       ELSE /\ ti' = 0
            /\ processed_tags' = <<>>
            /\ ri' = ri + 1
            /\ pc' = "repositories"

TagPreserved ==
    /\ AtTag
    /\ processed_tags[ti].status # "TO DELETE"
    /\ WriteRowAndAdvance
    /\ UNCHANGED <<args, preserve_rules, source, registry, backup_data, http, stdout, backup_file>>

\* Variant: the dry run sends the request all the same
TagDryRun_Sends ==
    /\ AtTag
    /\ processed_tags[ti].status = "TO DELETE"
    /\ args.dry_run
    /\ WriteRowAndAdvance
    /\ stdout' = Append(stdout, Line("[Dry Run] Would delete", backup_data[ri].name, processed_tags[ti].name))
    /\ http' = Append(http, Request("DELETE", backup_data[ri].name, processed_tags[ti].name, TRUE))
    /\ UNCHANGED <<args, preserve_rules, source, registry, backup_data, backup_file>>

TagDryRun ==
    /\ AtTag
    /\ processed_tags[ti].status = "TO DELETE"
    /\ args.dry_run
    /\ WriteRowAndAdvance
    /\ stdout' = Append(stdout, Line("[Dry Run] Would delete", backup_data[ri].name, processed_tags[ti].name))
    /\ UNCHANGED <<args, preserve_rules, source, registry, backup_data, http, backup_file>>

\* The registry answers the DELETE with success: the tag is gone, the driver sleeps
TagDeleted ==
    /\ AtTag
    /\ processed_tags[ti].status = "TO DELETE"
    /\ ~args.dry_run
    /\ LET repo_name == backup_data[ri].name
           tag_name == processed_tags[ti].name
       IN  /\ tag_name \in registry[repo_name]
           /\ registry' = [registry EXCEPT ![repo_name] = @ \ {tag_name}]
           /\ http' = http \o <<Request("DELETE", repo_name, tag_name, TRUE), Sleep>>
           /\ stdout' = Append(stdout, Line("Deleted", repo_name, tag_name))
    /\ WriteRowAndAdvance
    /\ UNCHANGED <<args, preserve_rules, source, backup_data, backup_file>>

\* Variant: the error of a failed deletion leaves the loop over the tags
TagDeleteFailed_LeavesLoop ==
    /\ AtTag
    /\ processed_tags[ti].status = "TO DELETE"
    /\ ~args.dry_run
    /\ LET repo_name == backup_data[ri].name
           tag_name == processed_tags[ti].name
       IN  /\ http' = Append(http, Request("DELETE", repo_name, tag_name, FALSE))
           /\ stdout' = Append(stdout, Line("Failed to delete", repo_name, tag_name))
    /\ csv' = Append(csv, Row(backup_data[ri].name, processed_tags[ti]))
    /\ ti' = 0
    /\ processed_tags' = <<>>
    /\ ri' = ri + 1
    /\ pc' = "repositories"
    /\ UNCHANGED <<args, preserve_rules, source, registry, backup_data, backup_file>>

\* The registry answers with an error status: requests.HTTPError is caught
TagDeleteFailed ==
    /\ AtTag
    /\ processed_tags[ti].status = "TO DELETE"
    /\ ~args.dry_run
    /\ LET repo_name == backup_data[ri].name
           tag_name == processed_tags[ti].name
       IN  /\ http' = Append(http, Request("DELETE", repo_name, tag_name, FALSE))
           /\ stdout' = Append(stdout, Line("Failed to delete", repo_name, tag_name))
    /\ WriteRowAndAdvance
    /\ UNCHANGED <<args, preserve_rules, source, registry, backup_data, backup_file>>

----------------------------------------------------------------------------

Next ==
    \/ LoadBackupData
    \/ FetchBackupData
    \/ SkipRepository
    \/ ProcessTagsRaises
    \/ ProcessTagsReturns
    \/ SaveBackup
    \/ ReturnWithoutBackup
    \/ TagPreserved
    \/ TagDryRun
    \/ TagDeleted
    \/ TagDeleteFailed

Spec == Init /\ [][Next]_vars

----------------------------------------------------------------------------
(* Vocabulary of the properties, stated on the inputs of the run *)

Deletions == SelectSeq(http, LAMBDA r : r.op = "DELETE")

WouldDeletes == SelectSeq(stdout, LAMBDA l : l.text = "[Dry Run] Would delete")

\* The raw tags of a repository, as the registry or the input file holds them
TagsOf(repo_name) ==
    source[CHOOSE i \in 1..Len(source) : source[i].name = repo_name].tags

InputIndex(tags, name) == CHOOSE i \in 1..Len(tags) : tags[i].name = name

Instant(tags, name) == parse_docker_date(tags[InputIndex(tags, name)].last_updated)

\* The i-th tag of the input is more recent than the j-th; of two tags of one
\* instant the earlier in the input is ahead
AheadAt(tags, i, j) ==
    LET a == parse_docker_date(tags[i].last_updated)
        b == parse_docker_date(tags[j].last_updated)
    IN  a > b \/ (a = b /\ i < j)

Ahead(tags, a, b) == AheadAt(tags, InputIndex(tags, a), InputIndex(tags, b))

\* name is one of the n most recent of the tags that start with prefix
AmongNewest(tags, prefix, n, name) ==
    /\ StartsWith(name, prefix)
    /\ LET j == InputIndex(tags, name)
       IN  Cardinality({i \in 1..Len(tags) :
                          StartsWith(tags[i].name, prefix) /\ AheadAt(tags, i, j)}) < n

SelectedBy(rule, tags, name) ==
    IF rule.count = None
    THEN StartsWith(name, rule.prefix)
    ELSE AmongNewest(tags, rule.prefix, rule.count[1], name)

\* The ranking rule of the run exempts the tag
Ranked(tags, name) ==
    IF preserve_rules # <<>>
    THEN \E k \in 1..Len(preserve_rules) : SelectedBy(preserve_rules[k], tags, name)
    ELSE AmongNewest(tags, <<>>, args.preserve_last, name)

Live == ~args.dry_run

----------------------------------------------------------------------------
(* C1 *)

\* C1: in a live run that fetches the tags from the registry, a deletion
\* request has been issued only if the backup file has been written.
C1_BackupBeforeDeletion ==
    (Live /\ ~args.input_json /\ Deletions # <<>>) => backup_file # None

----------------------------------------------------------------------------
(* C2 *)

LowerChar(c) == IF c = "P" THEN "p" ELSE c

Lower(name) == [i \in 1..Len(name) |-> LowerChar(name[i])]

CriticalNames ==
    {<<"l", "a", "t", "e", "s", "t">>, <<"p", "r", "o", "d">>,
     <<"p", "r", "o", "d", "u", "c", "t", "i", "o", "n">>}

IsCritical(name) == Lower(name) \in CriticalNames

\* C2: a tag named latest, prod or production, in any case, is PRESERVED, and
\* no deletion request or would-delete event is issued for it.
C2_CriticalNamePreserved ==
    /\ \A i \in 1..Len(processed_tags) :
          IsCritical(processed_tags[i].name) => processed_tags[i].status = "PRESERVED"
    /\ \A i \in 1..Len(Deletions) : ~IsCritical(Deletions[i].tag)
    /\ \A i \in 1..Len(WouldDeletes) : ~IsCritical(WouldDeletes[i].tag)

----------------------------------------------------------------------------
(* C10 *)

\* C10: every deletion request that is followed by another one is followed by
\* the pacing delay first, whatever its response was.
C10_DelayBetweenDeletions ==
    \A i \in 1..Len(http) :
        (http[i].op = "DELETE" /\ i < Len(http)) => http[i + 1].op = "sleep"

----------------------------------------------------------------------------
(* C3 *)

Event(repo_name, tag_name) == <<repo_name, tag_name>>

\* The (repository, tag) pairs of the deletion requests and of the would-delete events
Deleted == LET requests == Deletions
           IN  {Event(requests[i].repo, requests[i].tag) : i \in 1..Len(requests)}

WouldDelete == LET would == WouldDeletes
               IN  {Event(would[i].repo, would[i].tag) : i \in 1..Len(would)}

\* C3: for every prefix rule with a count N >= 1 and every repository, none of
\* the N most recently updated tags that start with the prefix is the subject
\* of a would-delete event or of a deletion request.
C3_NewestOfPrefixKept ==
    \A e \in Deleted \cup WouldDelete :
        \A k \in 1..Len(preserve_rules) :
            LET rule == preserve_rules[k]
            IN  (rule.count # None /\ rule.count[1] >= 1) =>
                    ~AmongNewest(TagsOf(e[1]), rule.prefix, rule.count[1], e[2])

\* A run ended in which a tag that starts with the prefix of a counted rule
\* was deleted, or would be, while a newer one with the prefix was kept
C3_Witness ==
    /\ pc = "done"
    /\ \E k \in 1..Len(preserve_rules) :
          /\ preserve_rules[k].count # None
          /\ preserve_rules[k].count[1] >= 1
          /\ \E kept, gone \in NamesOf(TagsOf(app)) :
                /\ AmongNewest(TagsOf(app), preserve_rules[k].prefix, preserve_rules[k].count[1], kept)
                /\ StartsWith(gone, preserve_rules[k].prefix)
                /\ Event(app, gone) \in Deleted \cup WouldDelete

----------------------------------------------------------------------------
(* C5 *)

InitialRegistry ==
    [name \in {source[i].name : i \in 1..Len(source)} |-> NamesOf(TagsOf(name))]

ToDeleteRows == SelectSeq(csv, LAMBDA row : row.status = "TO DELETE")

\* C5: in dry-run mode no deletion request is sent and the registry keeps its
\* tags, and the would-delete events are those of the TO DELETE rows, in order.
C5_DryRunDeletesNothing ==
    args.dry_run =>
        /\ http = <<>>
        /\ registry = InitialRegistry
        /\ LET would == WouldDeletes
               rows == ToDeleteRows
           IN  [i \in 1..Len(would) |-> Event(would[i].repo, would[i].tag)]
                 = [i \in 1..Len(rows) |-> Event(rows[i].repository, rows[i].tag)]

\* A dry run over fetched data ended with would-delete events in two repositories
C5_Witness ==
    /\ args.dry_run
    /\ ~args.input_json
    /\ pc = "done"
    /\ backup_file # None
    /\ \E i, j \in 1..Len(WouldDeletes) : WouldDeletes[i].repo # WouldDeletes[j].repo

----------------------------------------------------------------------------
(* C6 *)

RowsOf(repo_name) == SelectSeq(csv, LAMBDA row : row.repository = repo_name)

\* Of two entries of one repository, the earlier is of the tag updated more
\* recently, or of the same instant and earlier in the input
NewestFirstStable(repos, names) ==
    \A i, j \in 1..Len(names) :
        (i < j /\ repos[i] = repos[j]) => Ahead(TagsOf(repos[i]), names[i], names[j])

\* C6: the classification is a permutation of the input, every tag with one
\* status, newest first, tags of one instant in input order; the audit rows
\* and the deletion requests of a repository follow that order.
C6_PermutationNewestFirst ==
    /\ pc = "tags" =>
          LET tags == backup_data[ri].tags
          IN  /\ Len(processed_tags) = Len(tags)
              /\ \A i \in 1..Len(tags) :
                    \E j \in 1..Len(processed_tags) : processed_tags[j].original = tags[i]
              /\ \A i \in 1..Len(processed_tags) :
                    processed_tags[i].status \in {"PRESERVED", "TO DELETE"}
              /\ NewestFirstStable([i \in 1..Len(processed_tags) |-> backup_data[ri].name],
                                    [i \in 1..Len(processed_tags) |-> processed_tags[i].name])
    /\ NewestFirstStable([i \in 1..Len(csv) |-> csv[i].repository],
                          [i \in 1..Len(csv) |-> csv[i].tag])
    /\ LET requests == Deletions
       IN  NewestFirstStable([i \in 1..Len(requests) |-> requests[i].repo],
                             [i \in 1..Len(requests) |-> requests[i].tag])

\* A run ended with the rows of two tags of one repository whose timestamps
\* differ below the microsecond only
C6_Witness ==
    /\ pc = "done"
    /\ \E i, j \in 1..Len(RowsOf(app)) :
          LET a == RowsOf(app)[i]
              b == RowsOf(app)[j]
          IN  /\ i < j
              /\ Instant(TagsOf(app), a.tag) = Instant(TagsOf(app), b.tag)
              /\ a.last_updated # b.last_updated

----------------------------------------------------------------------------
(* C7 *)

RawOf(row) == LET tags == TagsOf(row.repository) IN tags[InputIndex(tags, row.tag)]

\* The tag was pulled, and not before now - retention window
PulledRecently(raw) ==
    /\ raw.tag_last_pulled # None
    /\ raw.tag_last_pulled[1] # SENTINEL
    /\ parse_docker_date(raw.tag_last_pulled[1]) >= utcnow - args.retention_days * Micros

NeverPulled(raw) == raw.tag_last_pulled = None \/ raw.tag_last_pulled[1] = SENTINEL

HasRule(reason, rule) == \E i \in 1..Len(reason) : reason[i].rule = rule

\* C7: a tag pulled within the retention window is PRESERVED with a reason
\* that contains "pulled within retention", whatever the ranking rule says of
\* it; a tag without a critical name that the ranking rule does not select
\* and that was never pulled is TO DELETE with the reason "never pulled" alone.
C7_RecencyAndNeverPulled ==
    \A i \in 1..Len(csv) :
        LET row == csv[i]
            raw == RawOf(row)
        IN  /\ PulledRecently(raw) =>
                  /\ row.status = "PRESERVED"
                  /\ HasRule(row.reason, "pulled within retention")
            /\ (/\ NeverPulled(raw)
                /\ ~IsCritical(row.tag)
                /\ ~Ranked(TagsOf(row.repository), row.tag)) =>
                  /\ row.status = "TO DELETE"
                  /\ row.reason = <<Reason("never pulled", 0, <<>>)>>

\* The rows of a tag pulled exactly at the cutoff that the ranking rule does
\* not select, and of a tag with the sentinel that no rule exempts
C7_Witness ==
    /\ \E i \in 1..Len(csv) :
          /\ PulledRecently(RawOf(csv[i]))
          /\ ~Ranked(TagsOf(csv[i].repository), csv[i].tag)
    /\ \E i \in 1..Len(csv) :
          /\ RawOf(csv[i]).tag_last_pulled = Some(SENTINEL)
          /\ ~IsCritical(csv[i].tag)
          /\ ~Ranked(TagsOf(csv[i].repository), csv[i].tag)

----------------------------------------------------------------------------
(* C8 *)

HasMalformed(tags) ==
    \E i \in 1..Len(tags) :
        \/ tags[i].last_updated.main < 0
        \/ /\ tags[i].tag_last_pulled # None
           /\ tags[i].tag_last_pulled[1] # SENTINEL
           /\ tags[i].tag_last_pulled[1].main < 0

\* C8: for a repository with a timestamp that does not parse, no audit row is
\* written and no deletion request or would-delete event is issued, and the
\* run does not go past it: it ends there with the error.
C8_MalformedFailsWhole ==
    \A k \in 1..Len(backup_data) :
        LET repo == backup_data[k]
        IN  (HasMalformed(repo.tags) /\ ~Skipped(repo.name)) =>
                /\ RowsOf(repo.name) = <<>>
                /\ \A e \in Deleted \cup WouldDelete : e[1] # repo.name
                /\ ri <= k
                /\ ri = k => pc \in {"repositories", "raised"}
                /\ pc # "done"

\* The run ended with the error at a repository that holds a well-formed tag
\* too, after the rows of an earlier repository were written
C8_Witness ==
    /\ pc = "raised"
    /\ csv # <<>>
    /\ \E i \in 1..Len(backup_data[ri].tags) : backup_data[ri].tags[i].last_updated.main >= 0

----------------------------------------------------------------------------
(* C4 *)

ClassifiedRows(repo) ==
    LET result == process_tags(repo.tags, args.retention_days, args.preserve_last, preserve_rules)
    IN  [i \in 1..Len(result) |-> Row(repo.name, result[i])]

\* The rows of a run in which nothing fails, repository by repository
RECURSIVE ExpectedRows(_)
ExpectedRows(repos) ==
    IF repos = <<>> THEN <<>>
    ELSE LET n == Len(repos)
         IN  ExpectedRows(SubSeq(repos, 1, n - 1))
             \o (IF Skipped(repos[n].name) THEN <<>> ELSE ClassifiedRows(repos[n]))

\* C4: a live run in which no timestamp is malformed ends, whichever deletion
\* requests fail, with the audit row of every tag of every processed
\* repository and one deletion request for every TO DELETE tag, in the order
\* of a run without failures; a failed deletion never ends the run.
C4_FailedDeletionsDoNotAbort ==
    /\ (Live /\ pc = "done") =>
          /\ csv = ExpectedRows(backup_data)
          /\ LET requests == Deletions
                 rows == ToDeleteRows
             IN  [i \in 1..Len(requests) |-> Event(requests[i].repo, requests[i].tag)]
                   = [i \in 1..Len(rows) |-> Event(rows[i].repository, rows[i].tag)]
    /\ (Live /\ pc = "raised") => HasMalformed(backup_data[ri].tags)

\* A live run ended in which a deletion failed and a tag of a later
\* repository was deleted after it
C4_Witness ==
    /\ Live
    /\ pc = "done"
    /\ \E i, j \in 1..Len(Deletions) :
          /\ i < j
          /\ ~Deletions[i].ok
          /\ Deletions[i].repo # Deletions[j].repo

----------------------------------------------------------------------------
(* C9 *)

Selecting(tags, name) ==
    {k \in 1..Len(preserve_rules) : SelectedBy(preserve_rules[k], tags, name)}

NamesRule(item, rule) ==
    /\ item.prefix = rule.prefix
    /\ item.rule \in {"top for prefix", "preserved all for prefix"}

Max(S) == CHOOSE x \in S : \A y \in S : y <= x
Min(S) == CHOOSE x \in S : \A y \in S : x <= y

\* The one ranking rule the reason names: the last preserve-all rule that
\* matches the tag, else the first counted rule that selects it
NamedRule(selecting) ==
    LET all == {k \in selecting : preserve_rules[k].count = None}
    IN  IF all # {} THEN Max(all) ELSE Min(selecting)

RankingPart(tags, name) ==
    IF preserve_rules = <<>>
    THEN IF AmongNewest(tags, <<>>, args.preserve_last, name)
         THEN <<Reason("top newest tags", args.preserve_last, <<>>)>>
         ELSE <<>>
    ELSE LET selecting == Selecting(tags, name)
             rule == preserve_rules[NamedRule(selecting)]
         IN  IF selecting = {} THEN <<>>
             ELSE IF rule.count = None
             THEN <<Reason("preserved all for prefix", 0, rule.prefix)>>
             ELSE <<Reason("top for prefix", rule.count[1], rule.prefix)>>

RecencyPart(raw) ==
    IF PulledRecently(raw)
    THEN <<Reason("pulled within retention", args.retention_days, <<>>)>>
    ELSE <<>>

====
